---- MODULE Spec2Model ----
(***************************************************************************)
(* Event schema checkers of zerver/lib/event_schema.py.                    *)
(*                                                                         *)
(* A checker is a synchronous function of an event (a mapping from string  *)
(* keys to Python values) and of a few expectation arguments; it returns   *)
(* normally or raises.  The state of the model is the last call made by    *)
(* the test suite: which checker, its arguments, the exception that        *)
(* reached the caller and what make_checker's closure printed, together    *)
(* with the objects a call could write: the event it was handed and the    *)
(* module-level tables it reads.                                           *)
(***************************************************************************)
EXTENDS Integers, Sequences, FiniteSets, TLC

\* checker: the checker called last ("none" before the first call)
\* lbl, evt, args: its label (var_name), its event and its other arguments
\* outcome: the exception that reached the caller, or none
\* stdout: what the call printed
\* passed: the event as the caller built it, before the first call
\* registry: the module-level objects the checkers read
\* calls: how many times the checker was called with this event
\* previous: outcome and output of the call before the last one
VARIABLES checker, lbl, evt, args, outcome, stdout, passed, registry, calls, previous

vars == <<checker, lbl, evt, args, outcome, stdout, passed, registry, calls, previous>>

(***************************************************************************)
(* Bounds of the model.                                                    *)
(***************************************************************************)
\* longest list drawn for a list-valued field, largest count argument
MaxLen == 2
\* most keys drawn for the data of a realm update_dict event
MaxDataKeys == 3

(***************************************************************************)
(* Python values: <<type name, payload>>.  type(v) is v[1].                *)
(***************************************************************************)
IntV(n) == <<"int", n>>
BoolV(b) == <<"bool", b>>
StrV(s) == <<"str", s>>
NoneV == <<"NoneType", 0>>
ListV(s) == <<"list", s>>
DictV(d) == <<"dict", d>>

PyType(v) == v[1]

\* isinstance(v, int): bool is a subclass of int
IsInstanceInt(v) == PyType(v) \in {"int", "bool"}

\* isinstance(v, T) for the builtin classes the catalogs hold
IsInstance(v, cls) ==
    IF cls = "int" THEN IsInstanceInt(v) ELSE PyType(v) = cls

\* what a property-type catalog holds for a name: a class, a tuple of classes,
\* or an Enum class with its member names
PyClass(cls) == <<"class", {cls}>>
PyClasses(clss) == <<"class", clss>>
PyEnum(names) == <<"enum", names>>

\* inspect.isclass(t) and issubclass(t, Enum)
IsEnum(property_type) == property_type[1] = "enum"

\* isinstance(v, property_type); no event value is a member of an Enum class
IsInstanceOf(v, property_type) ==
    /\ ~IsEnum(property_type)
    /\ \E cls \in property_type[2] : IsInstance(v, cls)

\* the integer a bool or int stands for in a comparison
NumOf(v) == IF PyType(v) = "bool" THEN (IF v[2] THEN 1 ELSE 0) ELSE v[2]

\* Python's ==
RECURSIVE PyEq(_, _)
PyEq(a, b) ==
    IF IsInstanceInt(a) /\ IsInstanceInt(b) THEN NumOf(a) = NumOf(b)
    ELSE IF PyType(a) # PyType(b) THEN FALSE
    ELSE IF PyType(a) = "list"
        THEN /\ Len(a[2]) = Len(b[2])
             /\ \A i \in 1..Len(a[2]) : PyEq(a[2][i], b[2][i])
    ELSE IF PyType(a) = "dict"
        THEN /\ DOMAIN a[2] = DOMAIN b[2]
             /\ \A k \in DOMAIN a[2] : PyEq(a[2][k], b[2][k])
    ELSE a = b

(***************************************************************************)
(* Field types of the pydantic models, validated in strict mode.           *)
(***************************************************************************)
TIs(tag) == <<"is", tag>>
TLit(strs) == <<"lit", strs>>
TUnion(types) == <<"union", types>>
TListOf(ty) == <<"listof", ty>>
TModel(fields) == <<"model", fields>>
TAny == <<"any">>

Req(ty) == [ty |-> ty, req |-> TRUE]
Opt(ty) == [ty |-> ty, req |-> FALSE]

TInt == TIs("int")
TBool == TIs("bool")
TStr == TIs("str")
TNone == TIs("NoneType")
TDict == TIs("dict")

\* strict validation of one value: no coercion, a bool is not an int
RECURSIVE Conforms(_, _)
Conforms(v, ty) ==
    CASE ty[1] = "any" -> TRUE
      [] ty[1] = "is" -> PyType(v) = ty[2]
      [] ty[1] = "lit" -> PyType(v) = "str" /\ v[2] \in ty[2]
      [] ty[1] = "union" -> \E i \in 1..Len(ty[2]) : Conforms(v, ty[2][i])
      [] ty[1] = "listof" ->
            /\ PyType(v) = "list"
            /\ \A i \in 1..Len(v[2]) : Conforms(v[2][i], ty[2])
      [] ty[1] = "model" ->
            /\ PyType(v) = "dict"
            /\ \A k \in DOMAIN ty[2] :
                 IF k \in DOMAIN v[2] THEN Conforms(v[2][k], ty[2][k].ty)
                 ELSE ~ty[2][k].req

\* model.model_validate(data, strict=True)
model_validate(data, model) == Conforms(DictV(data), TModel(model.fields))

(***************************************************************************)
(* Outcomes of a call: the exception that leaves it (exc = "none" when it  *)
(* returns), the keys a ValueError names, the model a validation was       *)
(* against, the source line that raised, and what was printed.             *)
(***************************************************************************)
Returned == [exc |-> "none", extra |-> {}, model |-> "", line |-> 0, printed |-> <<>>]

Raise(exc, line) ==
    [exc |-> exc, extra |-> {}, model |-> "", line |-> line, printed |-> <<>>]

AssertionError(line) == Raise("AssertionError", line)
KeyError(line) == Raise("KeyError", line)

Succeeded(r) == r.exc = "none"


(***************************************************************************)
(* validate_with_model and make_checker.                                   *)
(***************************************************************************)
\* validates the declared fields before looking for undeclared keys
validate_with_model_types_first(data, model) ==
    IF ~model_validate(data, model)
    THEN [exc |-> "ValidationError", extra |-> {},
          model |-> model.name, line |-> 134, printed |-> <<>>]
    ELSE IF ~(DOMAIN data \subseteq DOMAIN model.fields)
    THEN [exc |-> "ValueError", extra |-> DOMAIN data \ DOMAIN model.fields,
          model |-> model.name, line |-> 132, printed |-> <<>>]
    ELSE Returned

validate_with_model(data, model) ==
    LET allowed_fields == DOMAIN model.fields IN
    IF ~(DOMAIN data \subseteq allowed_fields)
    THEN [exc |-> "ValueError", extra |-> DOMAIN data \ allowed_fields,
          model |-> model.name, line |-> 132, printed |-> <<>>]
    ELSE IF ~model_validate(data, model)
    THEN [exc |-> "ValidationError", extra |-> {},
          model |-> model.name, line |-> 134, printed |-> <<>>]
    ELSE Returned

\* the closure f(label, event) that make_checker(base_model) returns
make_checker(base_model, label, event) ==
    LET r == validate_with_model(event, base_model) IN
    IF Succeeded(r) THEN r
    ELSE [r EXCEPT !.printed =
             <<[label |-> label, schema |-> base_model.name, event |-> event]>>]

(***************************************************************************)
(* Events drawn for a checker: every key of always, and every subset of    *)
(* the keys of sometimes, each key with every value listed for it.         *)
(***************************************************************************)
RECURSIVE Build(_, _, _)
Build(keys, opts, must) ==
    IF keys = {} THEN {<<>>}
    ELSE LET k == CHOOSE x \in keys : TRUE
             rest == Build(keys \ {k}, opts, must)
             with == {(k :> v) @@ e : e \in rest, v \in opts[k]}
         IN IF k \in must THEN with ELSE rest \cup with

EventsOf(always, sometimes) ==
    Build(DOMAIN always \cup DOMAIN sometimes, always @@ sometimes, DOMAIN always)

\* lists of 0..n copies of v
ListsOf(v, n) == {ListV([i \in 1..k |-> v]) : k \in 0..n}

Labels == {"events[0]", "events[1]"}


(***************************************************************************)
(* The call made by the test suite, and the state before any call.         *)
(***************************************************************************)
\* a test calls one checker with the event it captured
Idle == checker = "none"

\* pops the key it has checked out of the caller's event
Called_popping_type(var_name, event, a, r) ==
    /\ lbl' = var_name
    /\ evt' = [k \in DOMAIN event \ {"type"} |-> event[k]]
    /\ args' = a
    /\ outcome' = [exc |-> r.exc, extra |-> r.extra, model |-> r.model, line |-> r.line]
    /\ stdout' = r.printed
    /\ passed' = IF Idle THEN event ELSE passed
    /\ previous' = IF Idle THEN <<>> ELSE <<outcome, stdout>>
    /\ calls' = calls + 1
    /\ UNCHANGED registry

\* a call: the code reads event and the module-level tables (keys(), [...],
\* in, model_validate, pprint) and assigns to neither
Called(var_name, event, a, r) ==
    /\ lbl' = var_name
    /\ evt' = event
    /\ args' = a
    /\ outcome' = [exc |-> r.exc, extra |-> r.extra, model |-> r.model, line |-> r.line]
    /\ stdout' = r.printed
    /\ passed' = IF Idle THEN event ELSE passed
    /\ previous' = IF Idle THEN <<>> ELSE <<outcome, stdout>>
    /\ calls' = calls + 1
    /\ UNCHANGED registry

\* a key no model declares
UndeclaredField == [zz_undeclared |-> {IntV(1)}]

(***************************************************************************)
(* Checkers that are make_checker(model) and nothing else.                 *)
(***************************************************************************)
EventHeartbeat ==
    [name |-> "EventHeartbeat",
     fields |-> [id |-> Req(TInt), type |-> Req(TLit({"heartbeat"}))]]

EventAlertWords ==
    [name |-> "EventAlertWords",
     fields |-> [id |-> Req(TInt), type |-> Req(TLit({"alert_words"})),
                 alert_words |-> Req(TListOf(TStr))]]

EventHasZoomToken ==
    [name |-> "EventHasZoomToken",
     fields |-> [id |-> Req(TInt), type |-> Req(TLit({"has_zoom_token"})),
                 value |-> Req(TBool)]]

PlainModels == {EventHeartbeat, EventAlertWords, EventHasZoomToken}

PlainEvents ==
    EventsOf(<<>>,
             [id |-> {IntV(1), StrV("1"), BoolV(TRUE)},
              type |-> {StrV("heartbeat"), StrV("alert_words"), StrV("has_zoom_token")},
              alert_words |-> ListsOf(StrV("w"), MaxLen) \cup {ListV(<<IntV(1)>>)},
              value |-> {BoolV(TRUE), IntV(1)}]
             @@ UndeclaredField)

\* check_heartbeat, check_alert_words, ...: the closure itself
CheckPlain ==
    /\ Idle
    /\ \E base_model \in PlainModels, var_name \in Labels, event \in PlainEvents :
        /\ checker' = "make_checker"
        /\ Called(var_name, event, [base_model |-> base_model.name],
                  make_checker(base_model, var_name, event))

(***************************************************************************)
(* check_delete_message                                                    *)
(***************************************************************************)
EventDeleteMessage ==
    [name |-> "EventDeleteMessage",
     fields |-> [id |-> Req(TInt), type |-> Req(TLit({"delete_message"})),
                 message_type |-> Req(TLit({"private", "stream"})),
                 message_id |-> Opt(TUnion(<<TInt, TNone>>)),
                 message_ids |-> Opt(TUnion(<<TListOf(TInt), TNone>>)),
                 stream_id |-> Opt(TUnion(<<TInt, TNone>>)),
                 topic |-> Opt(TUnion(<<TStr, TNone>>))]]

\* forgets the two keys of a stream message
delete_message_keys_no_stream(message_type, is_legacy) ==
    {"id", "type", "message_type"}
    \cup (IF is_legacy THEN {"message_id"} ELSE {"message_ids"})

\* the keys assembled at lines 296-313
delete_message_keys(message_type, is_legacy) ==
    {"id", "type", "message_type"}
    \cup (IF message_type = "stream" THEN {"stream_id", "topic"} ELSE {})
    \cup (IF is_legacy THEN {"message_id"} ELSE {"message_ids"})

\* compares message_type before it validates the event
check_delete_message_validates_last(var_name, event, message_type, num_message_ids, is_legacy) ==
    LET base == make_checker(EventDeleteMessage, var_name, event) IN
    IF "message_type" \notin DOMAIN event THEN KeyError(298)
    ELSE IF ~PyEq(event["message_type"], StrV(message_type)) THEN AssertionError(298)
    ELSE IF ~Succeeded(base) THEN base
    ELSE IF message_type \notin {"stream", "private"} THEN AssertionError(305)
    ELSE IF is_legacy /\ num_message_ids # 1 THEN AssertionError(308)
    ELSE IF ~is_legacy /\ "message_ids" \notin DOMAIN event THEN KeyError(311)
    ELSE IF ~is_legacy /\ PyType(event["message_ids"]) # "list" THEN AssertionError(311)
    ELSE IF ~is_legacy /\ num_message_ids # Len(event["message_ids"][2])
        THEN AssertionError(312)
    ELSE IF DOMAIN event # delete_message_keys(message_type, is_legacy)
        THEN AssertionError(315)
    ELSE Returned

check_delete_message(var_name, event, message_type, num_message_ids, is_legacy) ==
    LET base == make_checker(EventDeleteMessage, var_name, event) IN
    IF ~Succeeded(base) THEN base
    ELSE IF ~PyEq(event["message_type"], StrV(message_type)) THEN AssertionError(298)
    ELSE IF message_type \notin {"stream", "private"} THEN AssertionError(305)
    ELSE IF is_legacy /\ num_message_ids # 1 THEN AssertionError(308)
    ELSE IF ~is_legacy /\ "message_ids" \notin DOMAIN event THEN KeyError(311)
    ELSE IF ~is_legacy /\ PyType(event["message_ids"]) # "list" THEN AssertionError(311)
    ELSE IF ~is_legacy /\ num_message_ids # Len(event["message_ids"][2])
        THEN AssertionError(312)
    ELSE IF DOMAIN event # delete_message_keys(message_type, is_legacy)
        THEN AssertionError(315)
    ELSE Returned

DeleteMessageEvents ==
    EventsOf([id |-> {IntV(1)}],
             [type |-> {StrV("delete_message")},
              message_type |-> {StrV("stream"), StrV("private"), StrV("bogus")},
              message_id |-> {IntV(7)},
              message_ids |-> ListsOf(IntV(7), MaxLen) \cup {NoneV},
              stream_id |-> {IntV(3)},
              topic |-> {StrV("t")}]
             @@ UndeclaredField)

CheckDeleteMessage ==
    /\ Idle
    /\ \E var_name \in Labels, event \in DeleteMessageEvents,
       message_type \in {"stream", "private", "bogus"},
       num_message_ids \in 0..MaxLen, is_legacy \in BOOLEAN :
        /\ checker' = "check_delete_message"
        /\ Called(var_name, event,
                  [message_type |-> message_type, num_message_ids |-> num_message_ids,
                   is_legacy |-> is_legacy],
                  check_delete_message(var_name, event, message_type, num_message_ids,
                                       is_legacy))

\* C2: a check_delete_message call on an event that passes the base schema
\* succeeds exactly when the event's message_type is the argument, the
\* argument is "stream" or "private", the count is 1 in legacy mode and the
\* length of the message_ids list otherwise, and the key set is exactly the
\* one the message type and the mode call for.
C2_DeleteMessageIff ==
    (/\ checker = "check_delete_message"
     /\ Succeeded(validate_with_model(evt, EventDeleteMessage)))
    => (Succeeded(outcome) <=>
          /\ evt["message_type"] = StrV(args.message_type)
          /\ args.message_type \in {"stream", "private"}
          /\ IF args.is_legacy THEN args.num_message_ids = 1
             ELSE /\ "message_ids" \in DOMAIN evt
                  /\ PyType(evt["message_ids"]) = "list"
                  /\ Len(evt["message_ids"][2]) = args.num_message_ids
          /\ DOMAIN evt =
                {"id", "type", "message_type"}
                \cup (IF args.message_type = "stream" THEN {"stream_id", "topic"} ELSE {})
                \cup (IF args.is_legacy THEN {"message_id"} ELSE {"message_ids"}))

\* a stream deletion of two messages, in list mode, accepted
C2_Witness ==
    /\ checker = "check_delete_message"
    /\ args = [message_type |-> "stream", num_message_ids |-> 2, is_legacy |-> FALSE]
    /\ DOMAIN evt = {"id", "type", "message_type", "stream_id", "topic", "message_ids"}
    /\ Succeeded(outcome)

(***************************************************************************)
(* check_update_message                                                    *)
(***************************************************************************)
\* zerver.lib.topic
TOPIC_NAME == "subject"
ORIG_TOPIC == "orig_subject"

EventUpdateMessage ==
    [name |-> "EventUpdateMessage",
     fields |-> [id |-> Req(TInt), type |-> Req(TLit({"update_message"})),
                 user_id |-> Req(TUnion(<<TInt, TNone>>)),
                 edit_timestamp |-> Req(TInt),
                 message_id |-> Req(TInt),
                 flags |-> Req(TListOf(TStr)),
                 message_ids |-> Req(TListOf(TInt)),
                 rendering_only |-> Req(TBool),
                 stream_id |-> Opt(TUnion(<<TInt, TNone>>)),
                 stream_name |-> Opt(TUnion(<<TStr, TNone>>)),
                 is_me_message |-> Opt(TUnion(<<TBool, TNone>>)),
                 orig_content |-> Opt(TUnion(<<TStr, TNone>>)),
                 orig_rendered_content |-> Opt(TUnion(<<TStr, TNone>>)),
                 content |-> Opt(TUnion(<<TStr, TNone>>)),
                 rendered_content |-> Opt(TUnion(<<TStr, TNone>>)),
                 topic_links |-> Opt(TUnion(<<TListOf(TDict), TNone>>)),
                 orig_subject |-> Opt(TUnion(<<TStr, TNone>>)),
                 subject |-> Opt(TUnion(<<TStr, TNone>>)),
                 propagate_mode |-> Opt(TUnion(<<TStr, TNone>>)),
                 new_stream_id |-> Opt(TUnion(<<TInt, TNone>>))]]

\* leaves ORIG_TOPIC out of the group of has_new_stream_id
update_message_expected_keys_short(is_stream_message, has_content, has_topic, has_new_stream_id, is_embedded_update_only) ==
    {"id", "type", "user_id", "edit_timestamp", "message_id", "flags", "message_ids",
     "rendering_only"}
    \cup (IF is_stream_message THEN {"stream_id", "stream_name"} ELSE {})
    \cup (IF has_content
          THEN {"is_me_message", "orig_content", "orig_rendered_content", "content",
                "rendered_content"}
          ELSE {})
    \cup (IF has_topic THEN {"topic_links", ORIG_TOPIC, TOPIC_NAME, "propagate_mode"}
          ELSE {})
    \cup (IF has_new_stream_id THEN {"new_stream_id", "propagate_mode"} ELSE {})
    \cup (IF is_embedded_update_only THEN {"content", "rendered_content"} ELSE {})

\* expected_keys as assembled at lines 701-746
update_message_expected_keys(is_stream_message, has_content, has_topic, has_new_stream_id, is_embedded_update_only) ==
    {"id", "type", "user_id", "edit_timestamp", "message_id", "flags", "message_ids",
     "rendering_only"}
    \cup (IF is_stream_message THEN {"stream_id", "stream_name"} ELSE {})
    \cup (IF has_content
          THEN {"is_me_message", "orig_content", "orig_rendered_content", "content",
                "rendered_content"}
          ELSE {})
    \cup (IF has_topic THEN {"topic_links", ORIG_TOPIC, TOPIC_NAME, "propagate_mode"}
          ELSE {})
    \cup (IF has_new_stream_id THEN {"new_stream_id", ORIG_TOPIC, "propagate_mode"}
          ELSE {})
    \cup (IF is_embedded_update_only THEN {"content", "rendered_content"} ELSE {})

check_update_message(var_name, event, is_stream_message, has_content, has_topic, has_new_stream_id, is_embedded_update_only) ==
    LET base == make_checker(EventUpdateMessage, var_name, event)
        actual_keys == DOMAIN event
        expected_keys ==
            update_message_expected_keys(is_stream_message, has_content, has_topic,
                                         has_new_stream_id, is_embedded_update_only)
    IN
    IF ~Succeeded(base) THEN base
    ELSE IF is_embedded_update_only /\ event["user_id"] # NoneV THEN AssertionError(747)
    ELSE IF ~is_embedded_update_only /\ ~IsInstanceInt(event["user_id"])
        THEN AssertionError(749)
    ELSE IF ~PyEq(event["rendering_only"], BoolV(is_embedded_update_only))
        THEN AssertionError(751)
    ELSE IF expected_keys # actual_keys THEN AssertionError(752)
    ELSE Returned

\* one value for each key of an update_message event
UpdateMessageValue ==
    [id |-> IntV(1), type |-> StrV("update_message"), user_id |-> IntV(5),
     edit_timestamp |-> IntV(1700), message_id |-> IntV(7),
     flags |-> ListV(<<StrV("read")>>), message_ids |-> ListV(<<IntV(7)>>),
     rendering_only |-> BoolV(FALSE), stream_id |-> IntV(3), stream_name |-> StrV("s"),
     is_me_message |-> BoolV(FALSE), orig_content |-> StrV("a"),
     orig_rendered_content |-> StrV("<p>a</p>"), content |-> StrV("b"),
     rendered_content |-> StrV("<p>b</p>"), topic_links |-> ListV(<<>>),
     orig_subject |-> StrV("t"), subject |-> StrV("u"), propagate_mode |-> StrV("change_one"),
     new_stream_id |-> IntV(4), zz_undeclared |-> IntV(1)]

\* the key sets of the events the server sends, and those one key away from them
UpdateMessageKeySets ==
    LET sent == {update_message_expected_keys(a, b, c, d, e) :
                     a \in BOOLEAN, b \in BOOLEAN, c \in BOOLEAN, d \in BOOLEAN,
                     e \in BOOLEAN}
    IN sent \cup {K \ {k} : K \in sent, k \in DOMAIN UpdateMessageValue}
            \cup {K \cup {k} : K \in sent, k \in DOMAIN UpdateMessageValue}

UpdateMessageEvents ==
    {[k \in K |-> IF k = "user_id" THEN user_id
                  ELSE IF k = "rendering_only" THEN rendering_only
                  ELSE UpdateMessageValue[k]] :
        K \in UpdateMessageKeySets, user_id \in {IntV(5), NoneV},
        rendering_only \in {BoolV(FALSE), BoolV(TRUE)}}

CheckUpdateMessage ==
    /\ Idle
    /\ \E var_name \in Labels, event \in UpdateMessageEvents,
          is_stream_message \in BOOLEAN, has_content \in BOOLEAN, has_topic \in BOOLEAN,
          has_new_stream_id \in BOOLEAN, is_embedded_update_only \in BOOLEAN :
        /\ checker' = "check_update_message"
        /\ Called(var_name, event,
                  [is_stream_message |-> is_stream_message, has_content |-> has_content,
                   has_topic |-> has_topic, has_new_stream_id |-> has_new_stream_id,
                   is_embedded_update_only |-> is_embedded_update_only],
                  check_update_message(var_name, event, is_stream_message, has_content,
                                       has_topic, has_new_stream_id,
                                       is_embedded_update_only))

\* C3: a check_update_message call on an event that passes the base schema
\* succeeds exactly when the key set is the base set united with the group of
\* every true flag, user_id is null for an embedded-only update and an integer
\* otherwise, and rendering_only equals is_embedded_update_only.
C3_UpdateMessageIff ==
    (/\ checker = "check_update_message"
     /\ Succeeded(validate_with_model(evt, EventUpdateMessage)))
    => (Succeeded(outcome) <=>
          /\ DOMAIN evt =
                {"id", "type", "user_id", "edit_timestamp", "message_id", "flags",
                 "message_ids", "rendering_only"}
                \cup {k \in {"stream_id", "stream_name"} : args.is_stream_message}
                \cup {k \in {"is_me_message", "orig_content", "orig_rendered_content",
                             "content", "rendered_content"} : args.has_content}
                \cup {k \in {"topic_links", "orig_subject", "subject", "propagate_mode"} :
                         args.has_topic}
                \cup {k \in {"new_stream_id", "orig_subject", "propagate_mode"} :
                         args.has_new_stream_id}
                \cup {k \in {"content", "rendered_content"} : args.is_embedded_update_only}
          /\ PyType(evt["user_id"]) =
                (IF args.is_embedded_update_only THEN "NoneType" ELSE "int")
          /\ evt["rendering_only"] = BoolV(args.is_embedded_update_only))

\* a stream message moved to another stream, nothing else changed, accepted
C3_Witness ==
    /\ checker = "check_update_message"
    /\ args = [is_stream_message |-> TRUE, has_content |-> FALSE, has_topic |-> FALSE,
               has_new_stream_id |-> TRUE, is_embedded_update_only |-> FALSE]
    /\ "orig_subject" \in DOMAIN evt
    /\ "subject" \notin DOMAIN evt
    /\ Succeeded(outcome)

(***************************************************************************)
(* check_realm_bot_add                                                     *)
(***************************************************************************)
\* zerver.models.UserProfile
DEFAULT_BOT == 1
INCOMING_WEBHOOK_BOT == 2
OUTGOING_WEBHOOK_BOT == 3
EMBEDDED_BOT == 4

BotServicesOutgoing ==
    [name |-> "BotServicesOutgoing",
     fields |-> [base_url |-> Req(TStr), interface |-> Req(TInt), token |-> Req(TStr)]]

BotServicesEmbedded ==
    [name |-> "BotServicesEmbedded",
     fields |-> [service_name |-> Req(TStr), config_data |-> Req(TDict)]]

EventRealmBotAdd ==
    [name |-> "EventRealmBotAdd",
     fields |-> [id |-> Req(TInt), type |-> Req(TLit({"realm_bot"})),
                 op |-> Req(TLit({"add"})),
                 bot |-> Req(TModel([user_id |-> Req(TInt), full_name |-> Req(TStr),
                                     bot_type |-> Req(TInt),
                                     services |-> Req(TListOf(TDict))]))]]

\* accepts any non-empty services list and validates its first entry
check_realm_bot_add_first_entry(var_name, event) ==
    LET base == make_checker(EventRealmBotAdd, var_name, event)
        bot_type == event["bot"][2]["bot_type"]
        services == event["bot"][2]["services"]
    IN
    IF ~Succeeded(base) THEN base
    ELSE IF PyType(event["bot"]) # "dict" THEN AssertionError(364)
    ELSE IF PyEq(bot_type, IntV(DEFAULT_BOT))
        THEN IF PyEq(services, ListV(<<>>)) THEN Returned ELSE AssertionError(370)
    ELSE IF PyEq(bot_type, IntV(OUTGOING_WEBHOOK_BOT))
        THEN IF Len(services[2]) < 1 THEN AssertionError(372)
             ELSE validate_with_model(services[2][1][2], BotServicesOutgoing)
    ELSE IF PyEq(bot_type, IntV(EMBEDDED_BOT))
        THEN IF Len(services[2]) < 1 THEN AssertionError(375)
             ELSE validate_with_model(services[2][1][2], BotServicesEmbedded)
    ELSE AssertionError(378)

check_realm_bot_add(var_name, event) ==
    LET base == make_checker(EventRealmBotAdd, var_name, event)
        bot_type == event["bot"][2]["bot_type"]
        services == event["bot"][2]["services"]
    IN
    IF ~Succeeded(base) THEN base
    ELSE IF PyType(event["bot"]) # "dict" THEN AssertionError(364)
    ELSE IF PyEq(bot_type, IntV(DEFAULT_BOT))
        THEN IF PyEq(services, ListV(<<>>)) THEN Returned ELSE AssertionError(370)
    ELSE IF PyEq(bot_type, IntV(OUTGOING_WEBHOOK_BOT))
        THEN IF Len(services[2]) # 1 THEN AssertionError(372)
             ELSE validate_with_model(services[2][1][2], BotServicesOutgoing)
    ELSE IF PyEq(bot_type, IntV(EMBEDDED_BOT))
        THEN IF Len(services[2]) # 1 THEN AssertionError(375)
             ELSE validate_with_model(services[2][1][2], BotServicesEmbedded)
    ELSE AssertionError(378)

\* entries of a services list: the two conformant shapes and broken ones
ServiceEntries ==
    {DictV([base_url |-> StrV("http://h"), interface |-> IntV(1), token |-> StrV("k")]),
     DictV([base_url |-> StrV("http://h"), interface |-> StrV("1"), token |-> StrV("k")]),
     DictV([base_url |-> StrV("http://h"), interface |-> IntV(1), token |-> StrV("k"),
            service_name |-> StrV("helloworld")]),
     DictV([service_name |-> StrV("helloworld"), config_data |-> DictV(<<>>)]),
     DictV([service_name |-> StrV("helloworld")]),
     DictV(<<>>)}

\* lists of at most n values of S
ListsOver(S, n) == {ListV(q) : q \in UNION {[1..k -> S] : k \in 0..n}}

RealmBotAddEvents ==
    EventsOf([id |-> {IntV(1)}, type |-> {StrV("realm_bot")}],
                    [op |-> {StrV("add")},
                     bot |-> {DictV([user_id |-> IntV(9), full_name |-> StrV("bot"),
                                     bot_type |-> bot_type, services |-> services]) :
                                 bot_type \in {IntV(DEFAULT_BOT), IntV(INCOMING_WEBHOOK_BOT),
                                               IntV(OUTGOING_WEBHOOK_BOT),
                                               IntV(EMBEDDED_BOT), StrV("1")},
                                 services \in ListsOver(ServiceEntries, MaxLen)}]
                    @@ UndeclaredField)

CheckRealmBotAdd ==
    /\ Idle
    /\ \E var_name \in Labels, event \in RealmBotAddEvents :
        /\ checker' = "check_realm_bot_add"
        /\ Called(var_name, event, <<>>, check_realm_bot_add(var_name, event))

\* C4: a check_realm_bot_add call on an event that passes the base schema
\* succeeds exactly when the bot is a default bot with no services, or an
\* outgoing-webhook bot with one service entry conforming to BotServicesOutgoing,
\* or an embedded bot with one service entry conforming to BotServicesEmbedded.
C4_RealmBotAddIff ==
    (/\ checker = "check_realm_bot_add"
     /\ Succeeded(validate_with_model(evt, EventRealmBotAdd)))
    => LET bot_type == evt["bot"][2]["bot_type"]
           services == evt["bot"][2]["services"][2]
       IN Succeeded(outcome) <=>
            \/ bot_type = IntV(DEFAULT_BOT) /\ services = <<>>
            \/ /\ bot_type = IntV(OUTGOING_WEBHOOK_BOT)
               /\ Len(services) = 1
               /\ DOMAIN services[1][2] \subseteq DOMAIN BotServicesOutgoing.fields
               /\ model_validate(services[1][2], BotServicesOutgoing)
            \/ /\ bot_type = IntV(EMBEDDED_BOT)
               /\ Len(services) = 1
               /\ DOMAIN services[1][2] \subseteq DOMAIN BotServicesEmbedded.fields
               /\ model_validate(services[1][2], BotServicesEmbedded)

\* an outgoing-webhook bot with its one conformant service entry, accepted
C4_Witness ==
    /\ checker = "check_realm_bot_add"
    /\ "bot" \in DOMAIN evt
    /\ evt["bot"][2]["bot_type"] = IntV(OUTGOING_WEBHOOK_BOT)
    /\ Len(evt["bot"][2]["services"][2]) = 1
    /\ Succeeded(outcome)

(***************************************************************************)
(* check_realm_update_dict                                                 *)
(***************************************************************************)
\* zerver.models.Realm: the names of the permission-group settings
REALM_PERMISSION_GROUP_SETTINGS == {"can_create_groups", "create_multiuse_invite_group"}

EventRealmUpdateDict ==
    [name |-> "EventRealmUpdateDict",
     fields |-> [id |-> Req(TInt), type |-> Req(TLit({"realm"})),
                 op |-> Req(TLit({"update_dict"})),
                 property |-> Req(TStr), data |-> Req(TDict)]]

AllowMessageEditingData ==
    [name |-> "AllowMessageEditingData",
     fields |-> [allow_message_editing |-> Req(TBool)]]

MessageContentEditLimitSecondsData ==
    [name |-> "MessageContentEditLimitSecondsData",
     fields |-> [message_content_edit_limit_seconds |-> Req(TUnion(<<TInt, TNone>>))]]

AuthenticationData ==
    [name |-> "AuthenticationData", fields |-> [authentication_methods |-> Req(TDict)]]

GroupSettingUpdateData ==
    [name |-> "GroupSettingUpdateData",
     fields |-> [can_create_groups |-> Opt(TUnion(<<TInt, TDict, TNone>>)),
                 create_multiuse_invite_group |-> Opt(TUnion(<<TInt, TDict, TNone>>))]]

PlanTypeData ==
    [name |-> "PlanTypeData",
     fields |-> [plan_type |-> Req(TInt),
                 upload_quota_mib |-> Req(TUnion(<<TInt, TNone>>)),
                 max_file_upload_size_mib |-> Req(TInt)]]

RealmTopicsPolicyData ==
    [name |-> "RealmTopicsPolicyData",
     fields |-> [topics_policy |-> Req(TStr), mandatory_topics |-> Req(TBool)]]

IconData ==
    [name |-> "IconData", fields |-> [icon_url |-> Req(TStr), icon_source |-> Req(TStr)]]

LogoData ==
    [name |-> "LogoData", fields |-> [logo_url |-> Req(TStr), logo_source |-> Req(TStr)]]

NightLogoData ==
    [name |-> "NightLogoData",
     fields |-> [night_logo_url |-> Req(TStr), night_logo_source |-> Req(TStr)]]

\* no branch of lines 501-514 matched
Unhandled == [name |-> "", fields |-> <<>>]

\* looks for plan_type before the permission-group settings
default_sub_type_plan_first(data) ==
    IF "allow_message_editing" \in DOMAIN data THEN AllowMessageEditingData
    ELSE IF "message_content_edit_limit_seconds" \in DOMAIN data
        THEN MessageContentEditLimitSecondsData
    ELSE IF "authentication_methods" \in DOMAIN data THEN AuthenticationData
    ELSE IF "plan_type" \in DOMAIN data THEN PlanTypeData
    ELSE IF \E setting_name \in REALM_PERMISSION_GROUP_SETTINGS : setting_name \in DOMAIN data
        THEN GroupSettingUpdateData
    ELSE IF "topics_policy" \in DOMAIN data THEN RealmTopicsPolicyData
    ELSE Unhandled

\* sub_type as chosen at lines 501-516 when property is "default"
default_sub_type(data) ==
    IF "allow_message_editing" \in DOMAIN data THEN AllowMessageEditingData
    ELSE IF "message_content_edit_limit_seconds" \in DOMAIN data
        THEN MessageContentEditLimitSecondsData
    ELSE IF "authentication_methods" \in DOMAIN data THEN AuthenticationData
    ELSE IF \E setting_name \in REALM_PERMISSION_GROUP_SETTINGS : setting_name \in DOMAIN data
        THEN GroupSettingUpdateData
    ELSE IF "plan_type" \in DOMAIN data THEN PlanTypeData
    ELSE IF "topics_policy" \in DOMAIN data THEN RealmTopicsPolicyData
    ELSE Unhandled

check_realm_update_dict(var_name, event) ==
    LET base == make_checker(EventRealmUpdateDict, var_name, event)
        property == event["property"]
        data == event["data"]
    IN
    IF ~Succeeded(base) THEN base
    ELSE IF PyEq(property, StrV("default"))
        THEN IF PyType(data) # "dict" THEN AssertionError(499)
             ELSE IF default_sub_type(data[2]) = Unhandled THEN AssertionError(516)
             ELSE validate_with_model(data[2], default_sub_type(data[2]))
    ELSE IF PyEq(property, StrV("icon")) THEN validate_with_model(data[2], IconData)
    ELSE IF PyEq(property, StrV("logo")) THEN validate_with_model(data[2], LogoData)
    ELSE IF PyEq(property, StrV("night_logo"))
        THEN validate_with_model(data[2], NightLogoData)
    ELSE AssertionError(525)

\* the values drawn for the keys of data
RealmUpdateDictDataValues ==
    [allow_message_editing |-> {BoolV(TRUE), IntV(1)},
     message_content_edit_limit_seconds |-> {IntV(600)},
     authentication_methods |-> {DictV(<<>>)},
     can_create_groups |-> {IntV(11)},
     create_multiuse_invite_group |-> {IntV(12)},
     plan_type |-> {IntV(1)},
     upload_quota_mib |-> {NoneV},
     max_file_upload_size_mib |-> {IntV(25)},
     topics_policy |-> {StrV("allow_empty_topic")},
     mandatory_topics |-> {BoolV(FALSE)},
     icon_url |-> {StrV("/icon")},
     icon_source |-> {StrV("U")},
     logo_url |-> {StrV("/logo")},
     logo_source |-> {StrV("U")},
     night_logo_url |-> {StrV("/night")},
     night_logo_source |-> {StrV("U")}]

RealmUpdateDictData ==
    UNION {Build(K, RealmUpdateDictDataValues, K) :
              K \in {S \in SUBSET DOMAIN RealmUpdateDictDataValues :
                        Cardinality(S) <= MaxDataKeys}}

RealmUpdateDictEvents ==
    EventsOf([id |-> {IntV(1)}, type |-> {StrV("realm")}, op |-> {StrV("update_dict")},
              property |-> {StrV("default"), StrV("icon"), StrV("logo"), StrV("night_logo"),
                            StrV("name")},
              data |-> {DictV(d) : d \in RealmUpdateDictData}],
             UndeclaredField)

CheckRealmUpdateDict ==
    /\ Idle
    /\ \E var_name \in Labels, event \in RealmUpdateDictEvents :
        /\ checker' = "check_realm_update_dict"
        /\ Called(var_name, event, <<>>, check_realm_update_dict(var_name, event))

\* the discriminants of data in the order of the claim, and their sub-schemas
C5_Priority ==
    <<{"allow_message_editing"}, {"message_content_edit_limit_seconds"},
      {"authentication_methods"}, REALM_PERMISSION_GROUP_SETTINGS, {"plan_type"},
      {"topics_policy"}>>

C5_SubSchema ==
    <<AllowMessageEditingData, MessageContentEditLimitSecondsData, AuthenticationData,
      GroupSettingUpdateData, PlanTypeData, RealmTopicsPolicyData>>

C5_Present == {i \in 1..6 : C5_Priority[i] \cap DOMAIN evt["data"][2] # {}}

C5_ValidatedAgainst(sub_type) ==
    LET r == validate_with_model(evt["data"][2], sub_type) IN
    /\ outcome.exc = r.exc
    /\ outcome.extra = r.extra
    /\ outcome.model = r.model

\* C5: a check_realm_update_dict call on an event that passes the base schema
\* validates data against one sub-schema only: for property "default" the one
\* of the earliest discriminant present in data, in the order
\* allow_message_editing, message_content_edit_limit_seconds,
\* authentication_methods, a permission-group setting, plan_type,
\* topics_policy, failing when none is present; for icon, logo and night_logo
\* the fixed one; and it fails for every other property.
C5_RealmUpdateDictPriority ==
    (/\ checker = "check_realm_update_dict"
     /\ Succeeded(validate_with_model(evt, EventRealmUpdateDict)))
    => CASE evt["property"] = StrV("default") ->
              IF C5_Present = {} THEN outcome.exc = "AssertionError"
              ELSE C5_ValidatedAgainst(
                       C5_SubSchema[CHOOSE i \in C5_Present :
                                        \A j \in C5_Present : i <= j])
         [] evt["property"] = StrV("icon") -> C5_ValidatedAgainst(IconData)
         [] evt["property"] = StrV("logo") -> C5_ValidatedAgainst(LogoData)
         [] evt["property"] = StrV("night_logo") -> C5_ValidatedAgainst(NightLogoData)
         [] OTHER -> ~Succeeded(outcome)

\* data holds a permission-group setting and plan_type: validated against the
\* sub-schema of the former alone, which does not declare plan_type
C5_Witness ==
    /\ checker = "check_realm_update_dict"
    /\ DOMAIN evt = {"id", "type", "op", "property", "data"}
    /\ evt["property"] = StrV("default")
    /\ DOMAIN evt["data"][2] = {"can_create_groups", "plan_type"}
    /\ outcome.exc = "ValueError"
    /\ outcome.model = "GroupSettingUpdateData"
    /\ outcome.extra = {"plan_type"}

(***************************************************************************)
(* check_realm_update                                                      *)
(***************************************************************************)
\* zerver.models.Realm.property_types
Realm_property_types ==
    [invite_required |-> PyClass("bool"),
     waiting_period_threshold |-> PyClass("int"),
     description |-> PyClass("str"),
     message_retention_days |-> PyClasses({"int", "NoneType"}),
     topics_policy |-> PyEnum({"allow_empty_topic", "disable_empty_topic"})]

EventRealmUpdate ==
    [name |-> "EventRealmUpdate",
     fields |-> [id |-> Req(TInt), type |-> Req(TLit({"realm"})),
                 op |-> Req(TLit({"update"})),
                 property |-> Req(TStr),
                 value |-> Req(TUnion(<<TBool, TInt, TStr>>))]]

\* the properties checked as plain integers (lines 453-459)
realm_update_int_props ==
    {"moderation_request_channel_id", "new_stream_announcements_stream_id",
     "signup_announcements_stream_id", "zulip_update_announcements_stream_id", "org_type"}

check_realm_update(var_name, event, prop) ==
    LET base == make_checker(EventRealmUpdate, var_name, event)
        value == event["value"]
        property_type == registry.Realm_property_types[prop]
    IN
    IF ~Succeeded(base) THEN base
    ELSE IF ~PyEq(StrV(prop), event["property"]) THEN AssertionError(450)
    ELSE IF prop \in realm_update_int_props
        THEN IF IsInstanceInt(value) THEN Returned ELSE AssertionError(460)
    ELSE IF prop \notin DOMAIN registry.Realm_property_types THEN KeyError(463)
    ELSE IF IsEnum(property_type)
        THEN IF PyType(value) # "str" THEN AssertionError(465)
             ELSE IF value[2] \notin property_type[2] THEN KeyError(466)
             ELSE Returned
    ELSE IF ~IsInstanceOf(value, property_type) THEN AssertionError(468)
    ELSE Returned

RealmUpdateProps ==
    realm_update_int_props \cup DOMAIN Realm_property_types \cup {"no_such_property"}

RealmUpdateEvents ==
    EventsOf([id |-> {IntV(1)}, type |-> {StrV("realm")}],
             [op |-> {StrV("update")},
              property |-> {StrV(p) : p \in RealmUpdateProps},
              value |-> {IntV(5), StrV("5"), BoolV(TRUE), StrV("allow_empty_topic"), NoneV}]
             @@ UndeclaredField)

CheckRealmUpdate ==
    /\ Idle
    /\ \E var_name \in Labels, event \in RealmUpdateEvents, prop \in RealmUpdateProps :
        /\ checker' = "check_realm_update"
        /\ Called(var_name, event, [prop |-> prop],
                  check_realm_update(var_name, event, prop))

\* C6: a check_realm_update call for one of the integer-coded properties
\* succeeds only when the value's exact type is int: a string fails, and a
\* boolean fails.
C6_IntPropsExactInt ==
    (/\ checker = "check_realm_update"
     /\ args.prop \in realm_update_int_props
     /\ Succeeded(outcome))
    => PyType(evt["value"]) = "int"

(***************************************************************************)
(* check_update_display_settings and check_user_settings_update            *)
(***************************************************************************)
\* zerver.models.UserProfile.property_types
UserProfile_property_types ==
    [default_language |-> PyClass("str"),
     twenty_four_hour_time |-> PyClass("bool"),
     demote_inactive_streams |-> PyClass("int"),
     resolved_topic_notice_auto_read_policy |->
         PyEnum({"always", "except_followed", "never"})]

EventUpdateDisplaySettings ==
    [name |-> "EventUpdateDisplaySettings",
     fields |-> [id |-> Req(TInt), type |-> Req(TLit({"update_display_settings"})),
                 setting_name |-> Req(TStr),
                 setting |-> Req(TUnion(<<TBool, TInt, TStr>>)),
                 language_name |-> Opt(TUnion(<<TStr, TNone>>))]]

EventUserSettingsUpdate ==
    [name |-> "EventUserSettingsUpdate",
     fields |-> [id |-> Req(TInt), type |-> Req(TLit({"user_settings"})),
                 op |-> Req(TLit({"update"})),
                 property |-> Req(TStr),
                 value |-> Req(TUnion(<<TBool, TInt, TStr>>)),
                 language_name |-> Opt(TUnion(<<TStr, TNone>>))]]

\* asserts nothing for the settings other than default_language
display_settings_language_name_unchecked(setting_name, event) ==
    IF PyEq(setting_name, StrV("default_language")) /\ "language_name" \notin DOMAIN event
    THEN AssertionError(639)
    ELSE Returned

\* lines 638-641
display_settings_language_name(setting_name, event) ==
    IF PyEq(setting_name, StrV("default_language"))
    THEN IF "language_name" \in DOMAIN event THEN Returned ELSE AssertionError(639)
    ELSE IF "language_name" \notin DOMAIN event THEN Returned ELSE AssertionError(641)

check_update_display_settings(var_name, event) ==
    LET base == make_checker(EventUpdateDisplaySettings, var_name, event)
        setting_name == event["setting_name"]
        setting == event["setting"]
        setting_type == registry.UserProfile_property_types[setting_name[2]]
    IN
    IF ~Succeeded(base) THEN base
    ELSE IF PyType(setting_name) # "str" THEN AssertionError(631)
    ELSE IF PyEq(setting_name, StrV("timezone")) /\ PyType(setting) # "str"
        THEN AssertionError(633)
    ELSE IF ~PyEq(setting_name, StrV("timezone"))
            /\ setting_name[2] \notin DOMAIN registry.UserProfile_property_types
        THEN KeyError(635)
    ELSE IF ~PyEq(setting_name, StrV("timezone")) /\ ~IsInstanceOf(setting, setting_type)
        THEN AssertionError(636)
    ELSE display_settings_language_name(setting_name, event)

\* takes any string for the value of an enumeration setting
user_settings_value_any_name(setting_name, value) ==
    LET setting_type == registry.UserProfile_property_types[setting_name[2]] IN
    IF PyEq(setting_name, StrV("timezone"))
    THEN IF PyType(value) = "str" THEN Returned ELSE AssertionError(654)
    ELSE IF setting_name[2] \notin DOMAIN registry.UserProfile_property_types THEN KeyError(656)
    ELSE IF IsEnum(setting_type)
        THEN IF PyType(value) # "str" THEN AssertionError(658) ELSE Returned
    ELSE IF IsInstanceOf(value, setting_type) THEN Returned
    ELSE AssertionError(661)

\* lines 653-661
user_settings_value(setting_name, value) ==
    LET setting_type == registry.UserProfile_property_types[setting_name[2]] IN
    IF PyEq(setting_name, StrV("timezone"))
    THEN IF PyType(value) = "str" THEN Returned ELSE AssertionError(654)
    ELSE IF setting_name[2] \notin DOMAIN registry.UserProfile_property_types THEN KeyError(656)
    ELSE IF IsEnum(setting_type)
        THEN IF PyType(value) # "str" THEN AssertionError(658)
             ELSE IF value[2] \notin setting_type[2] THEN KeyError(659)
             ELSE Returned
    ELSE IF IsInstanceOf(value, setting_type) THEN Returned
    ELSE AssertionError(661)

check_user_settings_update(var_name, event) ==
    LET base == make_checker(EventUserSettingsUpdate, var_name, event)
        setting_name == event["property"]
        value == event["value"]
    IN
    IF ~Succeeded(base) THEN base
    ELSE IF PyType(setting_name) # "str" THEN AssertionError(652)
    ELSE IF ~Succeeded(user_settings_value(setting_name, value))
        THEN user_settings_value(setting_name, value)
    ELSE IF PyEq(setting_name, StrV("default_language"))
        THEN IF "language_name" \in DOMAIN event THEN Returned ELSE AssertionError(664)
    ELSE IF "language_name" \notin DOMAIN event THEN Returned ELSE AssertionError(666)

SettingNames == DOMAIN UserProfile_property_types \cup {"timezone", "no_such_setting"}

SettingValues ==
    {BoolV(TRUE), IntV(1), StrV("en"), StrV("never"), StrV("Europe/Paris"), NoneV}

UpdateDisplaySettingsEvents ==
    EventsOf([id |-> {IntV(1)}],
             [type |-> {StrV("update_display_settings")},
              setting_name |-> {StrV(n) : n \in SettingNames} \cup {IntV(1)},
              setting |-> SettingValues,
              language_name |-> {StrV("English"), NoneV}]
             @@ UndeclaredField)

UserSettingsUpdateEvents ==
    EventsOf([id |-> {IntV(1)}, op |-> {StrV("update")}],
             [type |-> {StrV("user_settings")},
              property |-> {StrV(n) : n \in SettingNames} \cup {IntV(1)},
              value |-> SettingValues,
              language_name |-> {StrV("English"), NoneV}]
             @@ UndeclaredField)

CheckUpdateDisplaySettings ==
    /\ Idle
    /\ \E var_name \in Labels, event \in UpdateDisplaySettingsEvents :
        /\ checker' = "check_update_display_settings"
        /\ Called(var_name, event, <<>>, check_update_display_settings(var_name, event))

CheckUserSettingsUpdate ==
    /\ Idle
    /\ \E var_name \in Labels, event \in UserSettingsUpdateEvents :
        /\ checker' = "check_user_settings_update"
        /\ Called(var_name, event, <<>>, check_user_settings_update(var_name, event))

CheckSettings ==
    \/ CheckUpdateDisplaySettings
    \/ CheckUserSettingsUpdate

\* the setting name and the value of the event of a settings checker
SettingNameOf ==
    IF checker = "check_update_display_settings" THEN evt["setting_name"] ELSE evt["property"]

SettingValueOf ==
    IF checker = "check_update_display_settings" THEN evt["setting"] ELSE evt["value"]

OnSettingsEvent ==
    checker \in {"check_update_display_settings", "check_user_settings_update"}

\* C7: for both settings checkers, a successful call on a setting the catalog
\* maps to an enumeration has a string value that names a member of that
\* enumeration; and a successful call on timezone, which the catalog does not
\* hold, has a string value.
C7_EnumAndTimezoneValues ==
    (OnSettingsEvent /\ Succeeded(outcome))
    => /\ (/\ SettingNameOf[2] \in DOMAIN UserProfile_property_types
           /\ IsEnum(UserProfile_property_types[SettingNameOf[2]]))
          => /\ PyType(SettingValueOf) = "str"
             /\ SettingValueOf[2] \in UserProfile_property_types[SettingNameOf[2]][2]
       /\ SettingNameOf = StrV("timezone") => PyType(SettingValueOf) = "str"

\* an enumeration setting with the name of one of its members, accepted
C7_Witness ==
    /\ checker = "check_user_settings_update"
    /\ Succeeded(outcome)
    /\ evt["property"] = StrV("resolved_topic_notice_auto_read_policy")
    /\ evt["value"] = StrV("never")

\* timezone, absent from the catalog, with a string value, accepted
C7_WitnessTimezone ==
    /\ checker = "check_update_display_settings"
    /\ Succeeded(outcome)
    /\ evt["setting_name"] = StrV("timezone")
    /\ "timezone" \notin DOMAIN UserProfile_property_types

\* C8: for both settings checkers, an event the check accepts has a
\* language_name key exactly when its setting name is default_language.
C8_LanguageNameIff ==
    (OnSettingsEvent /\ Succeeded(outcome))
    => ("language_name" \in DOMAIN evt <=> SettingNameOf = StrV("default_language"))

\* default_language with its language_name, accepted by the display-settings checker
C8_Witness ==
    /\ checker = "check_update_display_settings"
    /\ Succeeded(outcome)
    /\ evt["setting_name"] = StrV("default_language")
    /\ "language_name" \in DOMAIN evt

(***************************************************************************)
(* check_stream_update                                                     *)
(***************************************************************************)
\* zerver.models.Stream
STREAM_POST_POLICY_TYPES == <<IntV(1), IntV(2), IntV(3), IntV(4)>>
stream_permission_group_settings ==
    {"can_administer_channel_group", "can_remove_subscribers_group"}

\* zerver.models.streams: the member names of StreamTopicsPolicyEnum
StreamTopicsPolicyEnum ==
    <<StrV("inherit"), StrV("allow_empty_topic"), StrV("disable_empty_topic"),
      StrV("empty_topic_only")>>

\* zerver.lib.types: the annotations of UserGroupMembersDict
UserGroupMembersDict == {"direct_members", "direct_subgroups"}

EventStreamUpdate ==
    [name |-> "EventStreamUpdate",
     fields |-> [id |-> Req(TInt), type |-> Req(TLit({"stream"})),
                 op |-> Req(TLit({"update"})),
                 property |-> Req(TStr),
                 value |-> Req(TUnion(<<TBool, TInt, TStr, TDict, TNone>>)),
                 name |-> Req(TStr),
                 stream_id |-> Req(TInt),
                 first_message_id |-> Opt(TUnion(<<TInt, TNone>>)),
                 is_archived |-> Opt(TUnion(<<TBool, TNone>>)),
                 folder_id |-> Opt(TUnion(<<TInt, TNone>>)),
                 rendered_description |-> Opt(TUnion(<<TStr, TNone>>)),
                 history_public_to_subscribers |-> Opt(TUnion(<<TBool, TNone>>)),
                 is_web_public |-> Opt(TUnion(<<TBool, TNone>>))]]

\* value in xs, with Python's ==
PyIn(value, xs) == \E i \in 1..Len(xs) : PyEq(value, xs[i])

\* the keys subtracted at lines 550-561
stream_update_base_keys ==
    {"id", "type", "op", "property", "value", "name", "stream_id", "first_message_id",
     "is_archived", "folder_id"}

check_stream_update(var_name, event) ==
    LET base == make_checker(EventStreamUpdate, var_name, event)
        prop == event["property"]
        value == event["value"]
        extra_keys == DOMAIN event \ stream_update_base_keys
        \* a branch that asserts extra_keys == set() and then ok
        plain(line_keys, ok, line_value) ==
            IF extra_keys # {} THEN AssertionError(line_keys)
            ELSE IF ~ok THEN AssertionError(line_value)
            ELSE Returned
    IN
    IF ~Succeeded(base) THEN base
    ELSE IF PyEq(prop, StrV("description"))
        THEN IF extra_keys # {"rendered_description"} THEN AssertionError(564)
             ELSE IF PyType(value) # "str" THEN AssertionError(565)
             ELSE Returned
    ELSE IF PyEq(prop, StrV("invite_only"))
        THEN IF extra_keys # {"history_public_to_subscribers", "is_web_public"}
             THEN AssertionError(567)
             ELSE IF PyType(value) # "bool" THEN AssertionError(568)
             ELSE Returned
    ELSE IF PyEq(prop, StrV("message_retention_days"))
        THEN plain(570, value = NoneV \/ IsInstanceInt(value), 572)
    ELSE IF PyEq(prop, StrV("name")) THEN plain(574, PyType(value) = "str", 575)
    ELSE IF PyEq(prop, StrV("stream_post_policy"))
        THEN plain(577, PyIn(value, STREAM_POST_POLICY_TYPES), 578)
    ELSE IF PyType(prop) = "str" /\ prop[2] \in stream_permission_group_settings
        THEN IF extra_keys # {} THEN AssertionError(580)
             ELSE IF ~(IsInstanceInt(value) \/ PyType(value) = "dict")
                 THEN AssertionError(581)
             ELSE IF PyType(value) = "dict" /\ UserGroupMembersDict # DOMAIN value[2]
                 THEN AssertionError(587)
             ELSE Returned
    ELSE IF PyEq(prop, StrV("first_message_id")) THEN plain(589, IsInstanceInt(value), 590)
    ELSE IF PyEq(prop, StrV("topics_policy"))
        THEN plain(592, PyIn(value, StreamTopicsPolicyEnum), 593)
    ELSE IF PyEq(prop, StrV("is_recently_active"))
        THEN plain(595, PyType(value) = "bool", 596)
    ELSE IF PyEq(prop, StrV("is_announcement_only"))
        THEN plain(598, PyType(value) = "bool", 599)
    ELSE IF PyEq(prop, StrV("is_archived")) THEN plain(601, PyType(value) = "bool", 602)
    ELSE IF PyEq(prop, StrV("folder_id"))
        THEN plain(604, value = NoneV \/ IsInstanceInt(value), 605)
    ELSE AssertionError(607)

StreamUpdateProps ==
    {"description", "invite_only", "message_retention_days", "name", "stream_post_policy",
     "first_message_id", "topics_policy", "is_recently_active", "is_announcement_only",
     "is_archived", "folder_id", "no_such_property"}
    \cup stream_permission_group_settings

StreamUpdateValues ==
    {IntV(1), IntV(9), BoolV(TRUE), StrV("x"), StrV("inherit"), NoneV,
     DictV([direct_members |-> ListV(<<>>), direct_subgroups |-> ListV(<<>>)]),
     DictV([direct_members |-> ListV(<<>>)]),
     DictV([direct_members |-> ListV(<<>>), direct_subgroups |-> ListV(<<>>),
            id |-> IntV(1)])}

StreamUpdateEvents ==
    EventsOf([id |-> {IntV(1)}, type |-> {StrV("stream")}, op |-> {StrV("update")},
              name |-> {StrV("s")}, stream_id |-> {IntV(3)},
              property |-> {StrV(p) : p \in StreamUpdateProps},
              value |-> StreamUpdateValues],
             [first_message_id |-> {IntV(7)},
              rendered_description |-> {StrV("<p>x</p>")},
              history_public_to_subscribers |-> {BoolV(TRUE)},
              is_web_public |-> {BoolV(FALSE)}]
             @@ UndeclaredField)

CheckStreamUpdate ==
    /\ Idle
    /\ \E var_name \in Labels, event \in StreamUpdateEvents :
        /\ checker' = "check_stream_update"
        /\ Called(var_name, event, <<>>, check_stream_update(var_name, event))

\* the extra keys and the value the claim fixes for a property
C9_ExtraKeys(prop) ==
    CASE prop = "description" -> {"rendered_description"}
      [] prop = "invite_only" -> {"history_public_to_subscribers", "is_web_public"}
      [] OTHER -> {}

\* exact says whether an integer must be of the exact type int
C9_ValueOk(prop, value, exact) ==
    LET IsInt(v) == IF exact THEN PyType(v) = "int" ELSE IsInstanceInt(v) IN
    CASE prop \in {"description", "name"} -> PyType(value) = "str"
      [] prop \in {"invite_only", "is_recently_active", "is_announcement_only", "is_archived"}
            -> PyType(value) = "bool"
      [] prop = "first_message_id" -> IsInt(value)
      [] prop \in {"message_retention_days", "folder_id"}
            -> PyType(value) = "NoneType" \/ IsInt(value)
      [] prop = "stream_post_policy"
            -> IsInt(value) /\ NumOf(value) \in 1..4
      [] prop = "topics_policy"
            -> /\ PyType(value) = "str"
               /\ value[2] \in {"inherit", "allow_empty_topic", "disable_empty_topic",
                                "empty_topic_only"}
      [] prop \in stream_permission_group_settings
            -> \/ IsInt(value)
               \/ /\ PyType(value) = "dict"
                  /\ DOMAIN value[2] = {"direct_members", "direct_subgroups"}
      [] OTHER -> FALSE

\* C9: an event check_stream_update accepts has, outside the base keys, exactly
\* the extra keys of its property, and a value of the type fixed for the
\* property, an integer being of the exact type int; an event with a property
\* outside the recognized set is not accepted.
C9_StreamUpdateShape ==
    (checker = "check_stream_update" /\ Succeeded(outcome))
    => /\ DOMAIN evt \ {"id", "type", "op", "property", "value", "name", "stream_id",
                        "first_message_id", "is_archived", "folder_id"}
            = C9_ExtraKeys(evt["property"][2])
       /\ C9_ValueOk(evt["property"][2], evt["value"], TRUE)

\* C9, with a boolean counted as an integer as isinstance counts it: this is
\* what the code enforces.
C9_StreamUpdateShapeBoolAsInt ==
    (checker = "check_stream_update" /\ Succeeded(outcome))
    => /\ DOMAIN evt \ {"id", "type", "op", "property", "value", "name", "stream_id",
                        "first_message_id", "is_archived", "folder_id"}
            = C9_ExtraKeys(evt["property"][2])
       /\ C9_ValueOk(evt["property"][2], evt["value"], FALSE)

(***************************************************************************)
(* check_muted_topics                                                      *)
(***************************************************************************)
EventMutedTopics ==
    [name |-> "EventMutedTopics",
     fields |-> [id |-> Req(TInt), type |-> Req(TLit({"muted_topics"})),
                 muted_topics |-> Req(TListOf(TIs("list")))]]

\* compares the entry with isinstance instead of type
muted_topic_shape_isinstance(muted_topic) ==
    LET muted_topic_tuple == muted_topic[2] IN
    /\ Len(muted_topic_tuple) = 3
    /\ IsInstance(muted_topic_tuple[1], "str")
    /\ IsInstance(muted_topic_tuple[2], "str")
    /\ IsInstance(muted_topic_tuple[3], "int")

\* list(map(type, tuple(muted_topic))) == [str, str, int], lines 335-336
muted_topic_shape(muted_topic) ==
    LET muted_topic_tuple == muted_topic[2] IN
    [i \in 1..Len(muted_topic_tuple) |-> PyType(muted_topic_tuple[i])]
        = <<"str", "str", "int">>

check_muted_topics(var_name, event) ==
    LET base == make_checker(EventMutedTopics, var_name, event)
        muted_topics == event["muted_topics"]
    IN
    IF ~Succeeded(base) THEN base
    ELSE IF PyType(muted_topics) # "list" THEN AssertionError(333)
    ELSE IF \E i \in 1..Len(muted_topics[2]) : ~muted_topic_shape(muted_topics[2][i])
        THEN AssertionError(336)
    ELSE Returned

\* entries of muted_topics: a well-formed one and malformed ones
MutedTopicEntries ==
    {ListV(<<StrV("general"), StrV("topic"), IntV(123)>>),
     ListV(<<StrV("general"), StrV("topic"), StrV("not-an-int")>>),
     ListV(<<StrV("general"), StrV("topic"), BoolV(TRUE)>>),
     ListV(<<StrV("general"), IntV(123), StrV("topic")>>),
     ListV(<<IntV(123), StrV("general"), StrV("topic")>>),
     ListV(<<StrV("general"), StrV("topic")>>),
     ListV(<<StrV("general"), StrV("topic"), IntV(123), IntV(456)>>),
     ListV(<<>>)}

MutedTopicsEvents ==
    EventsOf([id |-> {IntV(1)}],
             [type |-> {StrV("muted_topics")},
              muted_topics |-> ListsOver(MutedTopicEntries, MaxLen)
                               \cup {ListV(<<StrV("general")>>)}]
             @@ UndeclaredField)

CheckMutedTopics ==
    /\ Idle
    /\ \E var_name \in Labels, event \in MutedTopicsEvents :
        /\ checker' = "check_muted_topics"
        /\ Called(var_name, event, <<>>, check_muted_topics(var_name, event))

\* C10: a check_muted_topics call on an event that passes the base schema
\* succeeds exactly when every entry of muted_topics has three elements of the
\* exact types string, string, integer, in this order; with no entry it
\* succeeds.
C10_MutedTopicsIff ==
    (/\ checker = "check_muted_topics"
     /\ Succeeded(validate_with_model(evt, EventMutedTopics)))
    => LET entries == evt["muted_topics"][2] IN
       Succeeded(outcome) <=>
          \A i \in 1..Len(entries) :
             /\ Len(entries[i][2]) = 3
             /\ PyType(entries[i][2][1]) = "str"
             /\ PyType(entries[i][2][2]) = "str"
             /\ PyType(entries[i][2][3]) = "int"

\* a well-formed entry followed by a second one, accepted
C10_Witness ==
    /\ checker = "check_muted_topics"
    /\ "muted_topics" \in DOMAIN evt
    /\ PyType(evt["muted_topics"]) = "list"
    /\ Len(evt["muted_topics"][2]) = 2
    /\ Succeeded(outcome)

\* an entry whose third element is a boolean, refused at line 336
C10_WitnessBool ==
    /\ checker = "check_muted_topics"
    /\ "muted_topics" \in DOMAIN evt
    /\ evt["muted_topics"] = ListV(<<ListV(<<StrV("general"), StrV("topic"), BoolV(TRUE)>>)>>)
    /\ outcome.exc = "AssertionError"
    /\ outcome.line = 336

(***************************************************************************)
(* check_realm_user_update                                                 *)
(***************************************************************************)
PersonAvatarFields ==
    [name |-> "PersonAvatarFields",
     fields |-> [user_id |-> Req(TInt), avatar_source |-> Req(TStr),
                 avatar_url |-> Req(TUnion(<<TStr, TNone>>)),
                 avatar_url_medium |-> Req(TUnion(<<TStr, TNone>>)),
                 avatar_version |-> Req(TInt)]]

PersonBotOwnerId ==
    [name |-> "PersonBotOwnerId",
     fields |-> [user_id |-> Req(TInt), bot_owner_id |-> Req(TInt)]]

PersonCustomProfileField ==
    [name |-> "PersonCustomProfileField",
     fields |-> [user_id |-> Req(TInt), custom_profile_field |-> Req(TDict)]]

PersonDeliveryEmail ==
    [name |-> "PersonDeliveryEmail",
     fields |-> [user_id |-> Req(TInt),
                 delivery_email |-> Req(TUnion(<<TStr, TNone>>))]]

PersonEmail ==
    [name |-> "PersonEmail",
     fields |-> [user_id |-> Req(TInt), new_email |-> Req(TStr)]]

PersonFullName ==
    [name |-> "PersonFullName",
     fields |-> [user_id |-> Req(TInt), full_name |-> Req(TStr)]]

PersonIsActive ==
    [name |-> "PersonIsActive",
     fields |-> [user_id |-> Req(TInt), is_active |-> Req(TBool)]]

PersonRole ==
    [name |-> "PersonRole",
     fields |-> [user_id |-> Req(TInt), role |-> Req(TInt)]]

PersonTimezone ==
    [name |-> "PersonTimezone",
     fields |-> [user_id |-> Req(TInt), email |-> Req(TStr), timezone |-> Req(TStr)]]

\* lines 267-277
PERSON_TYPES ==
    [avatar_fields |-> PersonAvatarFields,
     bot_owner_id |-> PersonBotOwnerId,
     custom_profile_field |-> PersonCustomProfileField,
     delivery_email |-> PersonDeliveryEmail,
     email |-> PersonEmail,
     full_name |-> PersonFullName,
     role |-> PersonRole,
     timezone |-> PersonTimezone,
     is_active |-> PersonIsActive]

\* person is declared as the union of the person models
EventRealmUserUpdate ==
    [name |-> "EventRealmUserUpdate",
     fields |-> [id |-> Req(TInt), type |-> Req(TLit({"realm_user"})),
                 op |-> Req(TLit({"update"})),
                 person |-> Req(TUnion(<<TModel(PersonAvatarFields.fields),
                                         TModel(PersonBotOwnerId.fields),
                                         TModel(PersonCustomProfileField.fields),
                                         TModel(PersonDeliveryEmail.fields),
                                         TModel(PersonEmail.fields),
                                         TModel(PersonFullName.fields),
                                         TModel(PersonIsActive.fields),
                                         TModel(PersonRole.fields),
                                         TModel(PersonTimezone.fields)>>))]]

check_realm_user_update(var_name, event, person_flavor) ==
    LET base == make_checker(EventRealmUserUpdate, var_name, event) IN
    IF ~Succeeded(base) THEN base
    ELSE IF person_flavor \notin DOMAIN registry.PERSON_TYPES THEN KeyError(538)
    ELSE LET sub_type == registry.PERSON_TYPES[person_flavor] IN
         validate_with_model(event["person"][2], sub_type)

PersonFlavors == DOMAIN PERSON_TYPES \cup {"no_such_flavor"}

\* person objects: one per flavor tried, two flavors at once, a wrong type,
\* no flavor at all, and a value that is not a mapping
Persons ==
    {DictV([user_id |-> IntV(7), full_name |-> StrV("n")]),
     DictV([user_id |-> IntV(7), role |-> IntV(100)]),
     DictV([user_id |-> IntV(7), role |-> StrV("100")]),
     DictV([user_id |-> IntV(7), is_active |-> BoolV(FALSE)]),
     DictV([user_id |-> IntV(7), email |-> StrV("e@h"), timezone |-> StrV("UTC")]),
     DictV([user_id |-> IntV(7), full_name |-> StrV("n"), role |-> IntV(100)]),
     DictV([user_id |-> IntV(7), full_name |-> StrV("n"), role |-> StrV("100")]),
     DictV([user_id |-> IntV(7)]),
     IntV(7)}

RealmUserUpdateEvents ==
    EventsOf([id |-> {IntV(1)}, type |-> {StrV("realm_user")}],
             [op |-> {StrV("update")}, person |-> Persons] @@ UndeclaredField)

CheckRealmUserUpdate ==
    /\ Idle
    /\ \E var_name \in Labels, event \in RealmUserUpdateEvents, person_flavor \in PersonFlavors :
        /\ checker' = "check_realm_user_update"
        /\ Called(var_name, event, [person_flavor |-> person_flavor],
                  check_realm_user_update(var_name, event, person_flavor))

(***************************************************************************)
(* check_realm_default_update                                              *)
(***************************************************************************)
\* zerver.models.RealmUserDefault.property_types
RealmUserDefault_property_types ==
    [default_language |-> PyClass("str"),
     twenty_four_hour_time |-> PyClass("bool"),
     demote_inactive_streams |-> PyClass("int"),
     enable_sounds |-> PyClass("bool"),
     resolved_topic_notice_auto_read_policy |->
         PyEnum({"always", "except_followed", "never"})]

EventRealmUserSettingsDefaultsUpdate ==
    [name |-> "EventRealmUserSettingsDefaultsUpdate",
     fields |-> [id |-> Req(TInt), type |-> Req(TLit({"realm_user_settings_defaults"})),
                 op |-> Req(TLit({"update"})),
                 property |-> Req(TStr),
                 value |-> Req(TUnion(<<TBool, TInt, TStr>>))]]

check_realm_default_update(var_name, event, prop) ==
    LET base == make_checker(EventRealmUserSettingsDefaultsUpdate, var_name, event)
        prop_type == registry.RealmUserDefault_property_types[prop]
        value == event["value"]
    IN
    IF ~Succeeded(base) THEN base
    ELSE IF ~PyEq(StrV(prop), event["property"]) THEN AssertionError(478)
    ELSE IF prop = "default_language" THEN AssertionError(479)
    ELSE IF prop \notin DOMAIN registry.RealmUserDefault_property_types
        THEN AssertionError(480)
    ELSE IF IsEnum(prop_type)
        THEN IF PyType(value) # "str" THEN AssertionError(485)
             ELSE IF value[2] \notin prop_type[2] THEN KeyError(486)
             ELSE Returned
    ELSE IF ~IsInstanceOf(value, prop_type) THEN AssertionError(488)
    ELSE Returned

RealmDefaultUpdateProps == DOMAIN RealmUserDefault_property_types \cup {"no_such_property"}

RealmDefaultUpdateEvents ==
    EventsOf([id |-> {IntV(1)}, type |-> {StrV("realm_user_settings_defaults")}],
             [op |-> {StrV("update")},
              property |-> {StrV(p) : p \in RealmDefaultUpdateProps},
              value |-> {IntV(5), StrV("en"), BoolV(TRUE), StrV("never"), NoneV}]
             @@ UndeclaredField)

CheckRealmDefaultUpdate ==
    /\ Idle
    /\ \E var_name \in Labels, event \in RealmDefaultUpdateEvents, prop \in RealmDefaultUpdateProps :
        /\ checker' = "check_realm_default_update"
        /\ Called(var_name, event, [prop |-> prop],
                  check_realm_default_update(var_name, event, prop))

(***************************************************************************)
(* check_update_global_notifications                                       *)
(***************************************************************************)
\* zerver.models.UserProfile.notification_settings_legacy
notification_settings_legacy ==
    [enable_sounds |-> PyClass("bool"),
     desktop_icon_count_display |-> PyClass("int"),
     notification_sound |-> PyClass("str")]

EventUpdateGlobalNotifications ==
    [name |-> "EventUpdateGlobalNotifications",
     fields |-> [id |-> Req(TInt), type |-> Req(TLit({"update_global_notifications"})),
                 notification_name |-> Req(TStr),
                 setting |-> Req(TUnion(<<TBool, TInt, TStr>>)),
                 user |-> Req(TStr)]]

\* checks the type only of the settings the catalog holds
check_update_global_notifications_get(var_name, event, desired_val) ==
    LET base == make_checker(EventUpdateGlobalNotifications, var_name, event)
        setting_name == event["notification_name"]
        setting == event["setting"]
        setting_type == registry.notification_settings_legacy[setting_name[2]]
    IN
    IF ~Succeeded(base) THEN base
    ELSE IF ~PyEq(setting, desired_val) THEN AssertionError(681)
    ELSE IF PyType(setting_name) # "str" THEN AssertionError(683)
    ELSE IF setting_name[2] \notin DOMAIN registry.notification_settings_legacy
        THEN Returned
    ELSE IF ~IsInstanceOf(setting, setting_type) THEN AssertionError(685)
    ELSE Returned

check_update_global_notifications(var_name, event, desired_val) ==
    LET base == make_checker(EventUpdateGlobalNotifications, var_name, event)
        setting_name == event["notification_name"]
        setting == event["setting"]
        setting_type == registry.notification_settings_legacy[setting_name[2]]
    IN
    IF ~Succeeded(base) THEN base
    ELSE IF ~PyEq(setting, desired_val) THEN AssertionError(681)
    ELSE IF PyType(setting_name) # "str" THEN AssertionError(683)
    ELSE IF setting_name[2] \notin DOMAIN registry.notification_settings_legacy
        THEN KeyError(684)
    ELSE IF ~IsInstanceOf(setting, setting_type) THEN AssertionError(685)
    ELSE Returned

NotificationNames == DOMAIN notification_settings_legacy \cup {"no_such_notification"}

\* desired_val: bool | int | str
DesiredVals == {BoolV(TRUE), IntV(1), IntV(2), StrV("ding")}

UpdateGlobalNotificationsEvents ==
    EventsOf([id |-> {IntV(1)}, type |-> {StrV("update_global_notifications")}],
             [notification_name |-> {StrV(n) : n \in NotificationNames} \cup {IntV(1)},
              setting |-> DesiredVals \cup {NoneV},
              user |-> {StrV("u@h")}]
             @@ UndeclaredField)

CheckUpdateGlobalNotifications ==
    /\ Idle
    /\ \E var_name \in Labels, event \in UpdateGlobalNotificationsEvents, desired_val \in DesiredVals :
        /\ checker' = "check_update_global_notifications"
        /\ Called(var_name, event, [desired_val |-> desired_val],
                  check_update_global_notifications(var_name, event, desired_val))

(***************************************************************************)
(* Calling a checker again, and the state before any call.                 *)
(***************************************************************************)
\* the module-level tables after import: the models the checkers are bound
\* to (lines 167-264), PERSON_TYPES (lines 267-277) and the property-type
\* catalogs of zerver.models
Registry ==
    [schemas |-> {m.name : m \in PlainModels}
                 \cup {EventDeleteMessage.name, EventUpdateMessage.name,
                       EventRealmBotAdd.name, EventRealmUpdateDict.name,
                       EventRealmUpdate.name, EventUpdateDisplaySettings.name,
                       EventUserSettingsUpdate.name, EventStreamUpdate.name,
                       EventMutedTopics.name, EventRealmUserUpdate.name,
                       EventRealmUserSettingsDefaultsUpdate.name,
                       EventUpdateGlobalNotifications.name},
     PERSON_TYPES |-> PERSON_TYPES,
     Realm_property_types |-> Realm_property_types,
     UserProfile_property_types |-> UserProfile_property_types,
     RealmUserDefault_property_types |-> RealmUserDefault_property_types,
     notification_settings_legacy |-> notification_settings_legacy]

Init ==
    /\ checker = "none"
    /\ lbl = ""
    /\ evt = <<>>
    /\ args = <<>>
    /\ outcome = [exc |-> "none", extra |-> {}, model |-> "", line |-> 0]
    /\ stdout = <<>>
    /\ passed = <<>>
    /\ registry = Registry
    /\ calls = 0
    /\ previous = <<>>

\* the call c(var_name, event, ...) with the other arguments in a
Dispatch(c, var_name, event, a) ==
    CASE c = "make_checker" ->
            make_checker(CHOOSE m \in PlainModels : m.name = a.base_model, var_name, event)
      [] c = "check_delete_message" ->
            check_delete_message(var_name, event, a.message_type, a.num_message_ids,
                                 a.is_legacy)
      [] c = "check_update_message" ->
            check_update_message(var_name, event, a.is_stream_message, a.has_content,
                                 a.has_topic, a.has_new_stream_id,
                                 a.is_embedded_update_only)
      [] c = "check_realm_bot_add" -> check_realm_bot_add(var_name, event)
      [] c = "check_realm_update_dict" -> check_realm_update_dict(var_name, event)
      [] c = "check_realm_update" -> check_realm_update(var_name, event, a.prop)
      [] c = "check_update_display_settings" ->
            check_update_display_settings(var_name, event)
      [] c = "check_user_settings_update" -> check_user_settings_update(var_name, event)
      [] c = "check_stream_update" -> check_stream_update(var_name, event)
      [] c = "check_muted_topics" -> check_muted_topics(var_name, event)
      [] c = "check_realm_user_update" ->
            check_realm_user_update(var_name, event, a.person_flavor)
      [] c = "check_realm_default_update" ->
            check_realm_default_update(var_name, event, a.prop)
      [] c = "check_update_global_notifications" ->
            check_update_global_notifications(var_name, event, a.desired_val)

\* the test calls the same checker a second time, handing it the event
\* object and the arguments of the first call
CheckAgain ==
    /\ calls = 1
    /\ checker' = checker
    /\ Called(lbl, evt, args, Dispatch(checker, lbl, evt, args))

C11_WitnessPersonTypes ==
    /\ checker = "check_realm_user_update"
    /\ calls = 2
    /\ args.person_flavor = "full_name"
    /\ outcome.exc = "none"
    /\ previous[1].exc = "none"
    /\ registry.PERSON_TYPES = PERSON_TYPES

(***************************************************************************)
(* Specifications.                                                         *)
(***************************************************************************)
Next ==
    \/ CheckPlain
    \/ CheckDeleteMessage
    \/ CheckUpdateMessage
    \/ CheckRealmBotAdd
    \/ CheckRealmUpdateDict
    \/ CheckRealmUpdate
    \/ CheckUpdateDisplaySettings
    \/ CheckUserSettingsUpdate
    \/ CheckStreamUpdate
    \/ CheckMutedTopics
    \/ CheckRealmUserUpdate
    \/ CheckRealmDefaultUpdate
    \/ CheckUpdateGlobalNotifications
    \/ CheckAgain

Spec == Init /\ [][Next]_vars

SpecPlain == Init /\ [][CheckPlain]_vars
SpecDeleteMessage == Init /\ [][CheckDeleteMessage]_vars
SpecUpdateMessage == Init /\ [][CheckUpdateMessage]_vars
SpecRealmBotAdd == Init /\ [][CheckRealmBotAdd]_vars
SpecRealmUpdateDict == Init /\ [][CheckRealmUpdateDict]_vars
SpecRealmUpdate == Init /\ [][CheckRealmUpdate]_vars
SpecSettings == Init /\ [][CheckSettings]_vars
SpecStreamUpdate == Init /\ [][CheckStreamUpdate]_vars
SpecMutedTopics == Init /\ [][CheckMutedTopics]_vars
SpecRealmUserUpdate == Init /\ [][CheckRealmUserUpdate]_vars
SpecRealmDefaultUpdate == Init /\ [][CheckRealmDefaultUpdate]_vars
SpecUpdateGlobalNotifications == Init /\ [][CheckUpdateGlobalNotifications]_vars

(***************************************************************************)
(* Claims about every checker.                                             *)
(***************************************************************************)
\* the model each checker is bound to (lines 167-264)
bound_model ==
    CASE checker = "make_checker" ->
            (CHOOSE m \in PlainModels : m.name = args.base_model)
      [] checker = "check_delete_message" -> EventDeleteMessage
      [] checker = "check_update_message" -> EventUpdateMessage
      [] checker = "check_realm_bot_add" -> EventRealmBotAdd
      [] checker = "check_realm_update_dict" -> EventRealmUpdateDict
      [] checker = "check_realm_update" -> EventRealmUpdate
      [] checker = "check_update_display_settings" -> EventUpdateDisplaySettings
      [] checker = "check_user_settings_update" -> EventUserSettingsUpdate
      [] checker = "check_stream_update" -> EventStreamUpdate
      [] checker = "check_muted_topics" -> EventMutedTopics
      [] checker = "check_realm_user_update" -> EventRealmUserUpdate
      [] checker = "check_realm_default_update" -> EventRealmUserSettingsDefaultsUpdate
      [] checker = "check_update_global_notifications" -> EventUpdateGlobalNotifications

\* C1: whenever the event of a call has a key its bound model does not
\* declare, the call fails with the ValueError of validate_with_model, which
\* names exactly the event's keys minus the declared fields, whatever the
\* values of the other fields.
C1_UnknownFieldsNamed ==
    (checker # "none" /\ ~(DOMAIN evt \subseteq DOMAIN bound_model.fields))
    => /\ outcome.exc = "ValueError"
       /\ outcome.extra = DOMAIN evt \ DOMAIN bound_model.fields
       /\ outcome.extra # {}

\* an undeclared key beside a declared field of the wrong type
C1_Witness ==
    /\ checker = "make_checker"
    /\ args.base_model = "EventHeartbeat"
    /\ DOMAIN evt = {"id", "type", "alert_words", "zz_undeclared"}
    /\ evt["id"] = StrV("1")
    /\ outcome.exc = "ValueError"
    /\ outcome.extra = {"alert_words", "zz_undeclared"}

\* a failure raised by a schema validation: of the bound model or of a
\* sub-model (lines 132 and 134 are the only places that raise them)
StructuralFailure == outcome.exc \in {"ValueError", "ValidationError"}

\* the base validation of the last call, as validate_with_model reports it
BaseValidation == validate_with_model(evt, bound_model)

\* what make_checker's closure prints for the last call (lines 142-161)
Dump == [label |-> lbl, schema |-> bound_model.name, event |-> evt]

\* C12: whenever a call fails with a schema violation, of the bound model or
\* of a sub-model validated after it (bot services, data, person), exactly one
\* dump with the label, the bound schema's name and the event has been
\* printed, and the exception that reached the caller is the one the
\* validation raised.
C12_StructuralFailureDumped ==
    (checker # "none" /\ StructuralFailure)
    => /\ stdout = <<Dump>>
       /\ outcome.line \in {132, 134}
       /\ ~Succeeded(BaseValidation)
          => /\ outcome.exc = BaseValidation.exc
             /\ outcome.extra = BaseValidation.extra
             /\ outcome.model = bound_model.name

\* the same for violations of the bound schema alone: this holds in every
\* state
C12_BoundSchemaFailureDumped ==
    (checker # "none" /\ ~Succeeded(BaseValidation))
    => /\ stdout = <<Dump>>
       /\ outcome.exc = BaseValidation.exc
       /\ outcome.extra = BaseValidation.extra
       /\ outcome.model = bound_model.name
       /\ outcome.line = BaseValidation.line

\* a violation of a sub-schema leaves the call with nothing printed
C12_NestedFailureSilent ==
    (checker # "none" /\ StructuralFailure /\ Succeeded(BaseValidation))
    => /\ stdout = <<>>
       /\ outcome.model # bound_model.name
       /\ checker \in {"check_realm_bot_add", "check_realm_update_dict",
                       "check_realm_user_update"}

\* an outgoing webhook bot whose one service entry lacks its fields
C12_NestedWitness ==
    /\ checker = "check_realm_bot_add"
    /\ Succeeded(BaseValidation)
    /\ outcome.exc = "ValidationError"
    /\ outcome.model = "BotServicesOutgoing"
    /\ stdout = <<>>

\* the checkers that add assertions of their own to the base validation
Semantic == checker \notin {"none", "make_checker"}

\* the lines of check_delete_message whose check the last call violates,
\* each taken by itself (lines 298-315)
DeleteMessageViolations ==
    LET message_ids_listed ==
            /\ "message_ids" \in DOMAIN evt
            /\ PyType(evt["message_ids"]) = "list"
    IN
    (IF evt["message_type"] # StrV(args.message_type) THEN {298} ELSE {})
    \cup (IF args.message_type \notin {"stream", "private"} THEN {305} ELSE {})
    \cup (IF args.is_legacy /\ args.num_message_ids # 1 THEN {308} ELSE {})
    \cup (IF ~args.is_legacy /\ ~message_ids_listed THEN {311} ELSE {})
    \cup (IF /\ ~args.is_legacy
             /\ message_ids_listed
             /\ args.num_message_ids # Len(evt["message_ids"][2])
          THEN {312} ELSE {})
    \cup (IF DOMAIN evt # delete_message_keys(args.message_type, args.is_legacy)
          THEN {315} ELSE {})

\* the same for check_realm_update (lines 450-468)
RealmUpdateViolations ==
    LET value == evt["value"]
        bypass == args.prop \in realm_update_int_props
        known == args.prop \in DOMAIN Realm_property_types
        property_type == Realm_property_types[args.prop]
    IN
    (IF evt["property"] # StrV(args.prop) THEN {450} ELSE {})
    \cup (IF bypass /\ ~IsInstanceInt(value) THEN {460} ELSE {})
    \cup (IF ~bypass /\ ~known THEN {463} ELSE {})
    \cup (IF ~bypass /\ known /\ IsEnum(property_type) /\ PyType(value) # "str"
          THEN {465} ELSE {})
    \cup (IF /\ ~bypass /\ known /\ IsEnum(property_type) /\ PyType(value) = "str"
             /\ value[2] \notin property_type[2]
          THEN {466} ELSE {})
    \cup (IF ~bypass /\ known /\ ~IsEnum(property_type) /\ ~IsInstanceOf(value, property_type)
          THEN {468} ELSE {})

\* the first of a set of lines in program order
FirstLine(lines) == CHOOSE l \in lines : \A m \in lines : l <= m

ReportsFirst(violations) ==
    IF violations = {} THEN Succeeded(outcome)
    ELSE /\ outcome.exc \in {"AssertionError", "KeyError"}
         /\ outcome.line = FirstLine(violations)

\* C13: a call of a semantic checker on an event that fails the base
\* validation ends with that structural failure, whatever assertions,
\* look-ups and sub-schema validations the event and the arguments would
\* violate as well; and a call of check_delete_message or check_realm_update
\* on an event that passes it reports the violated check that comes first in
\* program order, and returns when there is none.
C13_FailFast ==
    Semantic
    => /\ ~Succeeded(BaseValidation)
          => /\ outcome.exc = BaseValidation.exc
             /\ outcome.extra = BaseValidation.extra
             /\ outcome.model = bound_model.name
             /\ outcome.line = BaseValidation.line
       /\ (checker = "check_delete_message" /\ Succeeded(BaseValidation))
          => ReportsFirst(DeleteMessageViolations)
       /\ (checker = "check_realm_update" /\ Succeeded(BaseValidation))
          => ReportsFirst(RealmUpdateViolations)

\* an event with an undeclared key and a message_type other than the
\* argument: the structural failure is the one reported
C13_Witness ==
    /\ checker = "check_delete_message"
    /\ "message_type" \in DOMAIN evt
    /\ evt["message_type"] = StrV("private")
    /\ args.message_type = "stream"
    /\ "zz_undeclared" \in DOMAIN evt
    /\ outcome.exc = "ValueError"
    /\ outcome.line = 132

\* three checks violated at once, the first reported
C13_WitnessFirst ==
    /\ checker = "check_delete_message"
    /\ Succeeded(BaseValidation)
    /\ DeleteMessageViolations = {298, 308, 315}
    /\ outcome.exc = "AssertionError"
    /\ outcome.line = 298

\* a property that is neither the event's nor in the catalog
C13_WitnessRealmUpdate ==
    /\ checker = "check_realm_update"
    /\ Succeeded(BaseValidation)
    /\ RealmUpdateViolations = {450, 463}
    /\ outcome.line = 450

\* the checkers that look a name of the event up in a property-type catalog
OnCatalogEvent ==
    checker \in {"check_realm_update", "check_realm_default_update",
                 "check_update_display_settings", "check_user_settings_update",
                 "check_update_global_notifications"}

\* the key of the event that carries the name
CatalogNameKey ==
    CASE checker \in {"check_realm_update", "check_realm_default_update",
                      "check_user_settings_update"} -> "property"
      [] checker = "check_update_display_settings" -> "setting_name"
      [] checker = "check_update_global_notifications" -> "notification_name"

\* the names the catalog of the checker holds
CatalogNames ==
    CASE checker = "check_realm_update" -> DOMAIN Realm_property_types
      [] checker = "check_realm_default_update" -> DOMAIN RealmUserDefault_property_types
      [] checker \in {"check_update_display_settings", "check_user_settings_update"} ->
            DOMAIN UserProfile_property_types
      [] checker = "check_update_global_notifications" ->
            DOMAIN notification_settings_legacy

\* the names the checker handles without its catalog
CatalogBypassNames ==
    CASE checker = "check_realm_update" -> realm_update_int_props
      [] checker \in {"check_update_display_settings", "check_user_settings_update"} ->
            {"timezone"}
      [] OTHER -> {}

\* the event carries a name that is neither in the catalog nor a bypass name
UncataloguedName ==
    /\ CatalogNameKey \in DOMAIN evt
    /\ \/ PyType(evt[CatalogNameKey]) # "str"
       \/ evt[CatalogNameKey][2] \notin CatalogNames \cup CatalogBypassNames

\* C14: a call of one of the five catalog checkers on an event whose property
\* or setting name is neither a key of the checker's catalog nor one of its
\* bypass names fails, whatever the event's value and the arguments are.
C14_UncataloguedNameFails ==
    (OnCatalogEvent /\ UncataloguedName) => ~Succeeded(outcome)

\* an unknown notification name, otherwise well-formed and with the value the
\* caller expects: the look-up at line 684 fails
C14_Witness ==
    /\ checker = "check_update_global_notifications"
    /\ Succeeded(BaseValidation)
    /\ evt["notification_name"] = StrV("no_such_notification")
    /\ evt["setting"] = args.desired_val
    /\ outcome.exc = "KeyError"
    /\ outcome.line = 684

\* an unknown realm-default property that the caller expects: line 480
C14_WitnessRealmDefault ==
    /\ checker = "check_realm_default_update"
    /\ Succeeded(BaseValidation)
    /\ evt["property"] = StrV("no_such_property")
    /\ args.prop = "no_such_property"
    /\ outcome.exc = "AssertionError"
    /\ outcome.line = 480

\* an unknown realm property that the caller expects: line 463
C14_WitnessRealm ==
    /\ checker = "check_realm_update"
    /\ Succeeded(BaseValidation)
    /\ evt["property"] = StrV("no_such_property")
    /\ args.prop = "no_such_property"
    /\ outcome.exc = "KeyError"
    /\ outcome.line = 463

====
